---- MODULE Spec2Model ----
(***************************************************************************)
(* A model of midibox's playback engine: the Player (tick counter, note    *)
(* identifier counter, table of sounding notes), the run loop try_run_ext  *)
(* that drives it, the ctrl-C handler installed by try_run, and the event  *)
(* router route_note.                                                      *)
(***************************************************************************)
EXTENDS Integers, Sequences, FiniteSets, TLC

\* ---------------------------------------------------------------- bounds
MaxTick   == 3        \* do_tick is not taken beyond this tick_id
MaxNoteId == 2        \* sources yield no note beyond this note_id
MaxSeqLen  == 3       \* notes of a FixedSequence as constructed
MaxMaskLen == 4       \* length of a mask vector

\* ------------------------------------------------------------ input domains
ChannelCounts == {1, 2}     \* lengths of the channels vector
Durations     == 0..3       \* note durations in ticks
BatchSizes    == 0..2       \* lengths of a batch

\* ------------------------------------------------------- values and inputs
None    == <<>>
Some(x) == <<x>>

NOTE_ON_MSG  == 144
NOTE_OFF_MSG == 128

Tones      == {"Rest", "C4"}
Velocities == {100}
Ports      == {0}
OutPortCounts == {0, 1}

Midi == [tone : Tones, duration : Durations, velocity : Velocities]

\* Midi::u8_maybe: the MIDI key number of a pitched note, None for a rest.
u8_maybe(note) ==
    IF note.tone = "Rest" THEN None ELSE Some(60)

Batches == UNION {[1..k -> Midi] : k \in BatchSizes}

\* What Midibox::next can return: None, or Some(batch).
NextResults == {None} \cup {Some(b) : b \in Batches}

\* A source is a stateful generator. Two kinds are modelled: one that may
\* return anything at every call, and one that returns the results of a fixed
\* script in order and empty batches once the script is used up.
AnySource == [kind |-> "any", script |-> <<>>, pos |-> 0]

Scripted(script) == [kind |-> "script", script |-> script, pos |-> 0]

\* Midibox::next: the results a call may return, and the source after it
NextOf(src) ==
    IF src.kind = "any" THEN NextResults
    ELSE IF src.pos < Len(src.script) THEN {src.script[src.pos + 1]}
         ELSE {Some(<<>>)}

AfterNext(src) ==
    IF src.kind = "script" /\ src.pos < Len(src.script)
    THEN [src EXCEPT !.pos = @ + 1]
    ELSE src

VARIABLES
    pc,             \* position of try_run_ext
    running,        \* the shared flag running[name]
    channels,       \* number of sources in the channels vector
    sources,        \* the state of each source (a Box<dyn Midibox>)
    route,          \* player_config.route: source index -> Option<port>
    out_ports,      \* number of output ports midir enumerates
    port_id_to_conn,\* set of ports with an open connection
    tick_id,        \* Player.tick_id
    note_id,        \* Player.note_id
    playing_notes,  \* Player.playing_notes: note id -> PlayingNote
    pending,        \* the Vec<PlayingNote> the current for loop routes
    polled,         \* history: per source, what the latest poll pass did
    hist,           \* history: every note taken from a batch, in order,
                    \* with the route_note calls made for it
    rep,            \* history: number of loop repetitions begun
    ticksAfterStop, \* history: clock advances made while running = FALSE
    seq_notes,      \* FixedSequence.notes
    seq_prev,       \* history: FixedSequence.notes before the latest call
    seq_op          \* history: the latest FixedSequence call and its argument

\* A FixedSequence is built before the player runs and is not changed by it.
sequence == <<seq_notes, seq_prev, seq_op>>

config == <<channels, route, out_ports, sequence>>

player == <<tick_id, note_id, playing_notes>>

vars == <<pc, running, config, sources, port_id_to_conn, player, pending,
          polled, hist, rep, ticksAfterStop>>

ChannelIds == 0..(channels - 1)

\* ------------------------------------------------------------------ Player

\* PlayingNote { channel_id, start_tick_id, note }
PlayingNote(channel_id, start_tick_id, note) ==
    [channel_id |-> channel_id, start_tick_id |-> start_tick_id, note |-> note]

\* Player::new
PlayerNew ==
    /\ tick_id = 0
    /\ note_id = 0
    /\ playing_notes = << >>

should_poll_always(table, channel_id) == TRUE

should_poll_when_silent(table, channel_id) == DOMAIN table = {}

should_poll_under_two(table, channel_id) ==
    Cardinality({id \in DOMAIN table : table[id].channel_id = channel_id}) <= 1

\* Player::should_poll_channel
should_poll_channel(table, channel_id) ==
    Cardinality({id \in DOMAIN table : table[id].channel_id = channel_id}) = 0

SameNoteId(n) == n

\* self.note_id += 1
NextNoteId(n) == n + 1

IgnoreNothing(note) == FALSE

\* if note.duration == 0 { continue; }
IgnoreNote(note) == note.duration = 0

\* self.playing_notes.insert(note_id, playing): an existing key is overwritten
Insert(table, id, playing) ==
    [k \in DOMAIN table \cup {id} |-> IF k = id THEN playing ELSE table[k]]

\* The body of `for note in notes` in poll_channels, over a whole batch.
\* st = [note_id, playing_notes, sources, hist, polled]
RECURSIVE AdmitNotes(_, _, _, _)
AdmitNotes(st, channel_id, now, notes) ==
    IF notes = <<>> THEN st
    ELSE LET note == Head(notes)
             id   == NextNoteId(st.note_id)
             skip == IgnoreNote(note)
             tbl  == IF skip THEN st.playing_notes
                     ELSE Insert(st.playing_notes, id,
                                 PlayingNote(channel_id, now, note))
             h    == Append(st.hist,
                            [id |-> id, zero |-> note.duration = 0,
                             inserted |-> tbl # st.playing_notes,
                             on |-> <<>>, off |-> <<>>])
         IN AdmitNotes([st EXCEPT !.note_id = id, !.playing_notes = tbl,
                                  !.hist = h],
                       channel_id, now, Tail(notes))

\* What the history keeps of a source in one poll pass: whether the table
\* held no record of it when the loop reached it, how many times its next()
\* was invoked, what came back ("none", "some" or, when it was not invoked,
\* "skipped"), how many notes the batch held and how many records were
\* inserted for them.
NotPolled ==
    [clear |-> TRUE, calls |-> 0, got |-> "nothing", notes |-> 0, kept |-> 0]

Reached(before, after, channel_id, calls, r) ==
    [clear |-> \A id \in DOMAIN before : before[id].channel_id # channel_id,
     calls |-> calls,
     got   |-> IF calls = 0 THEN "skipped"
               ELSE IF r = None THEN "none" ELSE "some",
     notes |-> IF calls = 0 \/ r = None THEN 0 ELSE Len(r[1]),
     kept  |-> Cardinality(DOMAIN after \ DOMAIN before)]

\* PollFrom with `break` where the None arm should fall through.
RECURSIVE PollFromUntilNone(_, _, _, _, _)
PollFromUntilNone(st, channel_id, n, now, res) ==
    IF channel_id >= n THEN st
    ELSE IF \E id \in DOMAIN st.playing_notes :
                st.playing_notes[id].channel_id = channel_id
         THEN PollFromUntilNone(
                  [st EXCEPT !.polled[channel_id] =
                       Reached(st.playing_notes, st.playing_notes,
                               channel_id, 0, None)],
                  channel_id + 1, n, now, res)
         ELSE LET r  == res[channel_id]
                  s1 == [st EXCEPT !.sources[channel_id] = AfterNext(@)]
                  s2 == IF r = None THEN s1
                        ELSE AdmitNotes(s1, channel_id, now, r[1])
                  s3 == [s2 EXCEPT !.polled[channel_id] =
                            Reached(st.playing_notes, s2.playing_notes,
                                    channel_id, 1, r)]
              IN IF r = None THEN s3
                 ELSE PollFromUntilNone(s3, channel_id + 1, n, now, res)

\* The `for (channel_id, channel) in channels.iter_mut().enumerate()` loop of
\* poll_channels from channel_id on; res[c] is what channel c's next() returns
\* if it is invoked.
RECURSIVE PollFrom(_, _, _, _, _)
PollFrom(st, channel_id, n, now, res) ==
    IF channel_id >= n THEN st
    ELSE IF ~should_poll_channel(st.playing_notes, channel_id)
         THEN PollFrom([st EXCEPT !.polled[channel_id] =
                            Reached(st.playing_notes, st.playing_notes,
                                    channel_id, 0, None)],
                       channel_id + 1, n, now, res)
         ELSE LET r  == res[channel_id]
                  s1 == [st EXCEPT !.sources[channel_id] = AfterNext(@)]
                  s2 == IF r = None THEN s1
                        ELSE AdmitNotes(s1, channel_id, now, r[1])
                  s3 == [s2 EXCEPT !.polled[channel_id] =
                            Reached(st.playing_notes, s2.playing_notes,
                                    channel_id, 1, r)]
              IN PollFrom(s3, channel_id + 1, n, now, res)

\* poll_channels returning the whole table
StartedEver(table, now) ==
    {[id |-> id, playing |-> table[id]] : id \in DOMAIN table}

\* The value poll_channels returns: the records whose start tick is now.
StartedNow(table, now) ==
    {[id |-> id, playing |-> table[id]] :
        id \in {k \in DOMAIN table : table[k].start_tick_id = now}}

ElapsedOneLate(playing, current_tick) ==
    playing.start_tick_id + playing.note.duration + 1 = current_tick

ElapsedFromZero(playing, current_tick) ==
    playing.note.duration = current_tick

\* clear_elapsed_notes's predicate
Elapsed(playing, current_tick) ==
    playing.start_tick_id + playing.note.duration = current_tick

OnlyElapsed(playing, current_tick) ==
    playing.start_tick_id + playing.note.duration = current_tick

\* clear_all_notes's predicate
ClearAny(playing, current_tick) == TRUE

\* clear_notes: the removed records and the table that is left
ClearedBy(table, now, all) ==
    {id \in DOMAIN table :
        IF all THEN ClearAny(table[id], now) ELSE Elapsed(table[id], now)}

RemoveNothing(table, ids) == table

Remaining(table, ids) == [k \in DOMAIN table \ ids |-> table[k]]

Removed(table, ids) == {[id |-> id, playing |-> table[id]] : id \in ids}

\* ------------------------------------------------------------- route_note

\* route_note without the arm for rests
route_rest_too(rt, conns, playing, midi_status, send_ok) ==
    LET port_id == rt[playing.channel_id] IN
    IF port_id = None THEN [kind |-> "noport"]
    ELSE IF port_id[1] \notin conns \/ ~send_ok THEN [kind |-> "panic"]
         ELSE [kind |-> "sent", port |-> port_id[1],
               msg |-> <<midi_status, 0, playing.note.velocity>>]

\* route_note with unwrap() on the route where the None arm should log
route_noport_panics(rt, conns, playing, midi_status, send_ok) ==
    LET v == u8_maybe(playing.note) IN
    IF v = None THEN [kind |-> "rest"]
    ELSE LET port_id == rt[playing.channel_id] IN
         IF port_id = None THEN [kind |-> "panic"]
         ELSE IF port_id[1] \notin conns \/ ~send_ok THEN [kind |-> "panic"]
              ELSE [kind |-> "sent", port |-> port_id[1],
                    msg |-> <<midi_status, v[1], playing.note.velocity>>]

\* route_note with `if let Some(conn) = device_conn.get_mut(port_id)` and a
\* log in the else arm, where the code panics
route_missing_conn_logged(rt, conns, playing, midi_status, send_ok) ==
    LET v == u8_maybe(playing.note) IN
    IF v = None THEN [kind |-> "rest"]
    ELSE LET port_id == rt[playing.channel_id] IN
         IF port_id = None THEN [kind |-> "noport"]
         ELSE IF port_id[1] \notin conns THEN [kind |-> "noport"]
              ELSE IF ~send_ok THEN [kind |-> "panic"]
                   ELSE [kind |-> "sent", port |-> port_id[1],
                         msg |-> <<midi_status, v[1], playing.note.velocity>>]

\* route_note sending velocity 0 with a stop
route_off_velocity_zero(rt, conns, playing, midi_status, send_ok) ==
    LET v == u8_maybe(playing.note) IN
    IF v = None THEN [kind |-> "rest"]
    ELSE LET port_id == rt[playing.channel_id] IN
         IF port_id = None THEN [kind |-> "noport"]
         ELSE IF port_id[1] \notin conns \/ ~send_ok THEN [kind |-> "panic"]
              ELSE [kind |-> "sent", port |-> port_id[1],
                    msg |-> <<midi_status, v[1],
                              IF midi_status = NOTE_OFF_MSG THEN 0
                              ELSE playing.note.velocity>>]

\* What one call of route_note does: nothing for a rest, a report when the
\* source has no port, a panic when the port has no connection or the send
\* fails, else the three bytes handed to the connection.
route_note(rt, conns, playing, midi_status, send_ok) ==
    LET v == u8_maybe(playing.note) IN
    IF v = None THEN [kind |-> "rest"]
    ELSE LET port_id == rt[playing.channel_id] IN
         IF port_id = None THEN [kind |-> "noport"]
         ELSE IF port_id[1] \notin conns
              THEN [kind |-> "panic"]
              ELSE IF ~send_ok THEN [kind |-> "panic"]
                   ELSE [kind |-> "sent", port |-> port_id[1],
                         msg |-> <<midi_status, v[1], playing.note.velocity>>]

\* The routers tried: the first k >= 1 sources go to port p (k = n is
\* StaticRouter::new(p)), the others have no port.
Routers(n) ==
    {[c \in 0..(n - 1) |-> IF c < k THEN Some(p) ELSE None] :
        k \in 1..n, p \in Ports}

\* Router::required_ports of the configured router
required_ports(rt) == {rt[c][1] : c \in {d \in DOMAIN rt : rt[d] # None}}

\* ----------------------------------------------------------- FixedSequence

\* Midi::set_pitch(Tone::Rest, 4): the note becomes a rest
set_pitch_rest(midi) == [midi EXCEPT !.tone = "Rest"]

\* Midi::set_duration
set_duration(midi, duration) == [midi EXCEPT !.duration = duration]

\* FixedSequence::len
len(s) == Len(s)

\* FixedSequence::len_ticks: the sum of the durations
RECURSIVE len_ticks(_)
len_ticks(s) ==
    IF s = <<>> THEN 0 ELSE Head(s).duration + len_ticks(Tail(s))

\* a.zip(b.cycle()): pairs up to the end of a; b.cycle() of an empty b is
\* empty, so the zip is empty too.
ZipCycle(a, b) ==
    IF b = <<>> THEN <<>>
    ELSE [i \in 1..Len(a) |-> <<a[i], b[((i - 1) % Len(b)) + 1]>>]

\* FixedSequence::mask
mask(s, m) ==
    LET z == ZipCycle(s, m)
    IN [i \in 1..Len(z) |->
          IF z[i][2] THEN z[i][1] ELSE set_pitch_rest(z[i][1])]

RepeatAtLeastOnce(v, n) == [i \in 1..(IF n = 0 THEN 1 ELSE n) |-> v[1]]

\* vec![x].repeat(n)
Repeat(v, n) == [i \in 1..n |-> v[1]]

\* The closure of split_to_ticks
SplitNote(m) == Repeat(<<set_duration(m, 1)>>, m.duration)

\* FixedSequence::split_to_ticks: notes.into_iter().flat_map(..).collect()
RECURSIVE split_to_ticks(_)
split_to_ticks(s) ==
    IF s = <<>> THEN <<>>
    ELSE SplitNote(Head(s)) \o split_to_ticks(Tail(s))

\* ----------------------------------------------------------------- actions

\* The state before try_run_ext's first statement, but for the sources.
InitCommon ==
    /\ pc = "start"
    /\ running = TRUE
    /\ channels \in ChannelCounts
    /\ route \in Routers(channels)
    /\ out_ports \in OutPortCounts
    /\ port_id_to_conn = {}
    /\ PlayerNew
    /\ pending = {}
    /\ polled = [c \in 0..(channels - 1) |-> NotPolled]
    /\ hist = <<>>
    /\ rep = 0
    /\ ticksAfterStop = 0
    /\ seq_notes = <<>>
    /\ seq_prev = <<>>
    /\ seq_op = [name |-> "new", arg |-> <<>>]

\* any sources at all
AnySources(n) == {[c \in 0..(n - 1) |-> AnySource]}

Init ==
    /\ InitCommon
    /\ sources \in AnySources(channels)

\* The ctrl-C handler of try_run: running[name] := false
SignalHandler ==
    /\ running' = FALSE
    /\ UNCHANGED <<pc, config, sources, port_id_to_conn, player, pending, polled,
                   hist, rep, ticksAfterStop>>

\* try_run_ext up to `let mut player = Player::new()`: MidiOutput::new or
\* connect may fail (the ? returns Err), else every enumerated port that is
\* required gets a connection.
Startup ==
    /\ pc = "start"
    /\ \E ok \in BOOLEAN :
         IF ok
         THEN /\ port_id_to_conn' =
                    {i \in 0..(out_ports - 1) : i \in required_ports(route)}
              /\ pc' = "loop"
         ELSE /\ port_id_to_conn' = {}
              /\ pc' = "failed"
    /\ UNCHANGED <<running, config, sources, player, pending, polled, hist,
                   rep, ticksAfterStop>>

\* the loop condition read from a copy of the flag taken one repetition ago
LoopCheckStale ==
    /\ pc = "loop"
    /\ IF running \/ ticksAfterStop = 0
       THEN /\ pc' = "poll"
            /\ rep' = rep + 1
       ELSE /\ pc' = "drain"
            /\ rep' = rep
    /\ UNCHANGED <<running, config, sources, port_id_to_conn, player, pending,
                   polled, hist, ticksAfterStop>>

\* while *running.lock().unwrap().get(name).unwrap()
LoopCheck ==
    /\ pc = "loop"
    /\ IF running
       THEN /\ pc' = "poll"
            /\ rep' = rep + 1
       ELSE /\ pc' = "drain"
            /\ rep' = rep
    /\ UNCHANGED <<running, config, sources, port_id_to_conn, player, pending, polled,
                   hist, ticksAfterStop>>

\* The sources whose next() a poll pass starting now can reach: a source
\* blocked at the start of the pass stays blocked during it, so the value its
\* next() would return is immaterial.
Eligible == {c \in ChannelIds : should_poll_channel(playing_notes, c)}

\* What source c's next() may return now, within the bound on note ids.
Offered(c) ==
    {r \in NextOf(sources[c]) : r = None \/ Len(r[1]) <= MaxNoteId - note_id}

\* The ways of picking one result offer[c] for every c.
ResultChoices(offer) ==
    LET all == UNION {offer[c] : c \in DOMAIN offer}
    IN IF \A c \in DOMAIN offer : offer[c] = all
       THEN [DOMAIN offer -> all]
       ELSE {r \in [DOMAIN offer -> all] : \A c \in DOMAIN offer : r[c] \in offer[c]}

\* Player::poll_channels: the effect of one call and, in pending, the vector
\* it returns.
poll_channels ==
    \E r \in ResultChoices([c \in Eligible |-> Offered(c)]) :
       LET res == [c \in ChannelIds |->
                      IF c \in Eligible THEN r[c] ELSE None]
           st0 == [note_id |-> note_id,
                   playing_notes |-> playing_notes,
                   sources |-> sources, hist |-> hist,
                   polled |-> [c \in ChannelIds |-> NotPolled]]
           st  == PollFrom(st0, 0, channels, tick_id, res)
       IN /\ st.note_id <= MaxNoteId
          /\ note_id' = st.note_id
          /\ playing_notes' = st.playing_notes
          /\ sources' = st.sources
          /\ hist' = st.hist
          /\ polled' = st.polled
          /\ pending' = StartedNow(st.playing_notes, tick_id)

\* player.poll_channels(channels)
PollChannels ==
    /\ pc = "poll"
    /\ poll_channels
    /\ pc' = IF pending' = {} THEN "tick" ELSE "note_on"
    /\ UNCHANGED <<running, config, port_id_to_conn, tick_id, rep,
                   ticksAfterStop>>

\* hist with one more route_note call recorded for note id: for a start, how
\* many ticks after the record's start tick it is made; for a stop, from which
\* loop and how many ticks before the record's elapse tick.
Logged(h, id, playing, midi_status, now, at, out) ==
    [k \in DOMAIN h |->
        IF h[k].id # id THEN h[k]
        ELSE IF midi_status = NOTE_ON_MSG
             THEN [h[k] EXCEPT !.on = Append(@,
                      [age |-> now - playing.start_tick_id, out |-> out])]
             ELSE [h[k] EXCEPT !.off = Append(@,
                      [at |-> at,
                       left |-> playing.start_tick_id + playing.note.duration
                                - now,
                       out |-> out])]]

\* One iteration of a `for note in ... { route_note(..) }` loop. The vector's
\* order comes from HashMap iteration, so any pending record may be next.
\* After the last iteration control is at next_pc.
RouteOne(midi_status, next_pc) ==
    /\ pending # {}
    /\ \E p \in pending, send_ok \in BOOLEAN :
         LET out == route_note(route, port_id_to_conn, p.playing, midi_status,
                               send_ok)
         IN /\ hist' = Logged(hist, p.id, p.playing, midi_status, tick_id,
                              pc, out)
            /\ pending' = pending \ {p}
            /\ pc' = IF out.kind = "panic" THEN "panicked"
                     ELSE IF pending' = {} THEN next_pc ELSE pc
    /\ UNCHANGED <<running, config, sources, port_id_to_conn, player, polled, rep, ticksAfterStop>>

RouteNoteOn ==
    /\ pc = "note_on"
    /\ RouteOne(NOTE_ON_MSG, "tick")

\* player.do_tick(bpm)
DoTick ==
    /\ pc = "tick"
    /\ tick_id < MaxTick
    /\ tick_id' = tick_id + 1
    /\ ticksAfterStop' = IF running THEN ticksAfterStop ELSE ticksAfterStop + 1
    /\ pc' = "reap"
    /\ UNCHANGED <<running, config, sources, port_id_to_conn, note_id, playing_notes,
                   pending, polled, hist, rep>>

\* player.clear_elapsed_notes()
ClearElapsedNotes ==
    /\ pc = "reap"
    /\ LET ids == ClearedBy(playing_notes, tick_id, FALSE)
       IN /\ pending' = Removed(playing_notes, ids)
          /\ playing_notes' = Remaining(playing_notes, ids)
    /\ pc' = IF pending' = {} THEN "loop" ELSE "note_off"
    /\ UNCHANGED <<running, config, sources, port_id_to_conn, tick_id, note_id, polled,
                   hist, rep, ticksAfterStop>>

RouteNoteOff ==
    /\ pc = "note_off"
    /\ RouteOne(NOTE_OFF_MSG, "loop")

\* player.clear_all_notes()
ClearAllNotes ==
    /\ pc = "drain"
    /\ LET ids == ClearedBy(playing_notes, tick_id, TRUE)
       IN /\ pending' = Removed(playing_notes, ids)
          /\ playing_notes' = Remaining(playing_notes, ids)
    /\ pc' = IF pending' = {} THEN "done" ELSE "drain_off"
    /\ UNCHANGED <<running, config, sources, port_id_to_conn, tick_id, note_id, polled,
                   hist, rep, ticksAfterStop>>

RouteNoteDrain ==
    /\ pc = "drain_off"
    /\ RouteOne(NOTE_OFF_MSG, "done")

Next ==
    \/ SignalHandler
    \/ Startup
    \/ LoopCheck
    \/ PollChannels
    \/ RouteNoteOn
    \/ DoTick
    \/ ClearElapsedNotes
    \/ RouteNoteOff
    \/ ClearAllNotes
    \/ RouteNoteDrain

Spec == Init /\ [][Next]_vars

\* try_run_ext is one thread of straight-line code: once control is at the
\* drain (lines 234-236) nothing but route_note's panic keeps it from the
\* next statement.
FairSpec == Spec /\ WF_vars(ClearAllNotes) /\ WF_vars(RouteNoteDrain)

\* ---------------------------------------------------------------- scenarios

Pitched == {m \in Midi : m.tone # "Rest" /\ m.duration >= 1}

\* Scenario A: one source, routed to port 0, that yields one pitched note of
\* duration >= 1 at its first poll and empty batches afterwards.
ScenarioASources(n) ==
    IF n # 1 THEN {}
    ELSE {[c \in {0} |-> Scripted(<<Some(<<m>>)>>)] : m \in Pitched}

InitA ==
    /\ InitCommon
    /\ sources \in ScenarioASources(channels)
    /\ route[0] = Some(0)

SpecA == InitA /\ [][Next]_vars

\* Scenario C: two sources A (index 0) and B (index 1), both routed to port
\* 0; each yields one pitched note at its first poll and empty batches
\* afterwards, A's note longer than B's (3 ticks and 1 tick among others).
ScenarioCSources(n) ==
    IF n # 2 THEN {}
    ELSE {[c \in {0, 1} |-> Scripted(<<Some(<<ab[c + 1]>>)>>)] :
             ab \in {q \in Pitched \X Pitched :
                        q[2].duration < q[1].duration}}

InitC ==
    /\ InitCommon
    /\ sources \in ScenarioCSources(channels)
    /\ \A c \in ChannelIds : route[c] = Some(0)

SpecC == InitC /\ [][Next]_vars

\* A source that returns a batch of two pitched notes of different durations
\* >= 1 at its first poll and empty batches afterwards, routed to port 0.
TwoNoteBatchSources(n) ==
    IF n # 1 THEN {}
    ELSE {[c \in {0} |-> Scripted(<<Some(b)>>)] :
             b \in {q \in Pitched \X Pitched :
                       q[1].duration # q[2].duration}}

InitB ==
    /\ InitCommon
    /\ sources \in TwoNoteBatchSources(channels)
    /\ route[0] = Some(0)

SpecB == InitB /\ [][Next]_vars

\* ------------------------------------------- Player, called by any caller

\* Player::new(); the caller holds some sources. pc names the latest call.
InitApi ==
    /\ pc = "new"
    /\ running = TRUE
    /\ channels \in ChannelCounts
    /\ route = [c \in ChannelIds |-> Some(0)]
    /\ sources \in AnySources(channels)
    /\ out_ports = 1
    /\ port_id_to_conn = {}
    /\ PlayerNew
    /\ pending = {}
    /\ polled = [c \in ChannelIds |-> NotPolled]
    /\ hist = <<>>
    /\ rep = 0
    /\ ticksAfterStop = 0
    /\ seq_notes = <<>>
    /\ seq_prev = <<>>
    /\ seq_op = [name |-> "new", arg |-> <<>>]

\* player.poll_channels(channels), at any time
CallPollChannels ==
    /\ poll_channels
    /\ pc' = "poll_channels"
    /\ UNCHANGED <<running, config, port_id_to_conn, tick_id, rep,
                   ticksAfterStop>>

\* player.do_tick(meter), at any time
CallDoTick ==
    /\ tick_id < MaxTick
    /\ tick_id' = tick_id + 1
    /\ pending' = {}
    /\ pc' = "do_tick"
    /\ UNCHANGED <<running, config, sources, port_id_to_conn, note_id,
                   playing_notes, polled, hist, rep, ticksAfterStop>>

\* player.clear_elapsed_notes(), at any time
CallClearElapsedNotes ==
    /\ LET ids == ClearedBy(playing_notes, tick_id, FALSE)
       IN /\ pending' = Removed(playing_notes, ids)
          /\ playing_notes' = Remaining(playing_notes, ids)
    /\ pc' = "clear_elapsed_notes"
    /\ UNCHANGED <<running, config, sources, port_id_to_conn, tick_id,
                   note_id, polled, hist, rep, ticksAfterStop>>

\* player.clear_all_notes(), at any time
CallClearAllNotes ==
    /\ LET ids == ClearedBy(playing_notes, tick_id, TRUE)
       IN /\ pending' = Removed(playing_notes, ids)
          /\ playing_notes' = Remaining(playing_notes, ids)
    /\ pc' = "clear_all_notes"
    /\ UNCHANGED <<running, config, sources, port_id_to_conn, tick_id,
                   note_id, polled, hist, rep, ticksAfterStop>>

NextApi ==
    \/ CallPollChannels
    \/ CallDoTick
    \/ CallClearElapsedNotes
    \/ CallClearAllNotes

SpecApi == InitApi /\ [][NextApi]_vars

\* ------------------------------------------------ FixedSequence, on its own

Sequences == UNION {[1..k -> Midi] : k \in 0..MaxSeqLen}

Masks == UNION {[1..k -> BOOLEAN] : k \in 0..MaxMaskLen}

\* FixedSequence::new(notes), for any notes; the player is not running.
InitSeq ==
    /\ pc = "start"
    /\ running = TRUE
    /\ channels = 1
    /\ route = [c \in {0} |-> Some(0)]
    /\ sources = [c \in {0} |-> AnySource]
    /\ out_ports = 1
    /\ port_id_to_conn = {}
    /\ PlayerNew
    /\ pending = {}
    /\ polled = [c \in {0} |-> NotPolled]
    /\ hist = <<>>
    /\ rep = 0
    /\ ticksAfterStop = 0
    /\ seq_notes \in Sequences
    /\ seq_prev = seq_notes
    /\ seq_op = [name |-> "new", arg |-> <<>>]

playback == <<pc, running, channels, route, out_ports, sources,
              port_id_to_conn, player, pending, polled, hist, rep,
              ticksAfterStop>>

\* sequence.mask(m)
Mask ==
    /\ seq_op.name = "new"
    /\ \E m \in Masks :
         /\ seq_notes' = mask(seq_notes, m)
         /\ seq_op' = [name |-> "mask", arg |-> m]
    /\ seq_prev' = seq_notes
    /\ UNCHANGED playback

\* sequence.split_to_ticks()
SplitToTicks ==
    /\ seq_op.name = "new"
    /\ seq_notes' = split_to_ticks(seq_notes)
    /\ seq_op' = [name |-> "split_to_ticks", arg |-> <<>>]
    /\ seq_prev' = seq_notes
    /\ UNCHANGED playback

NextSeq ==
    \/ Mask
    \/ SplitToTicks

SpecSeq == InitSeq /\ [][NextSeq]_vars

\* ------------------------------------------------------------------ claims

HistIds == DOMAIN hist

\* The ids of the records a stop-routing loop still has to route.
StopPending ==
    IF pc \in {"note_off", "drain_off"} THEN {p.id : p \in pending} ELSE {}

\* C1. Single-flight: in every poll pass each source is reached once; its
\* next() is invoked (once) if and only if the table held no record of that
\* source at that moment, and a source with a sounding record is skipped.
C1_SingleFlight ==
    /\ (rep >= 1 /\ pc # "poll") =>
            \A c \in ChannelIds : polled[c].got # "nothing"
    /\ \A c \in ChannelIds :
          polled[c].got # "nothing" =>
            /\ polled[c].calls = (IF polled[c].clear THEN 1 ELSE 0)
            /\ (polled[c].got = "skipped") <=> ~polled[c].clear

C1_Witness ==
    /\ channels = 2
    /\ polled[0].got = "skipped" /\ ~polled[0].clear
    /\ polled[1].got = "some" /\ polled[1].calls = 1
    /\ tick_id = 1

Inserted == {k \in HistIds : hist[k].inserted}

InTable(k) == hist[k].id \in DOMAIN playing_notes

AwaitsStop(k) == hist[k].id \in StopPending

One(b) == IF b THEN 1 ELSE 0

RECURSIVE Sum(_, _)
Sum(f, S) ==
    IF S = {} THEN 0
    ELSE LET x == CHOOSE y \in S : TRUE IN f[x] + Sum(f, S \ {x})

\* C2. Exactly-once stop, in a run that route_note's panic does not abort:
\* a record is in the table, or handed to a stop-routing loop, or has had its
\* one stop routing, never two of these and never none; a stop routed by the
\* while loop falls on the record's elapse tick start + duration, a stop
\* routed by the drain comes before it; no record in the table is overdue;
\* when try_run_ext returns every inserted record has had exactly one stop
\* routing.
C2_ExactlyOnceStop ==
    /\ \A k \in HistIds :
         /\ Len(hist[k].off) <= 1
         /\ ~hist[k].inserted => hist[k].off = <<>>
         /\ \A i \in DOMAIN hist[k].off :
              /\ hist[k].off[i].at \in {"note_off", "drain_off"}
              /\ hist[k].off[i].at = "note_off" => hist[k].off[i].left = 0
              /\ hist[k].off[i].at = "drain_off" => hist[k].off[i].left > 0
    /\ pc # "panicked" =>
         \A k \in Inserted :
            One(InTable(k)) + One(AwaitsStop(k)) + Len(hist[k].off) = 1
    /\ \A id \in DOMAIN playing_notes :
         LET r == playing_notes[id]
         IN IF pc = "reap"
            THEN r.start_tick_id + r.note.duration >= tick_id
            ELSE r.start_tick_id + r.note.duration > tick_id
    /\ pc = "done" =>
         /\ playing_notes = << >> /\ pending = {}
         /\ \A k \in Inserted : Len(hist[k].off) = 1

C2_Witness ==
    /\ pc = "done"
    /\ \E k, j \in Inserted :
         /\ hist[k].off # <<>> /\ hist[k].off[1].at = "note_off"
         /\ hist[j].off # <<>> /\ hist[j].off[1].at = "drain_off"

\* The route_note calls recorded for note id, starts then stops.
CallsOf(h, id) ==
    LET k == CHOOSE i \in DOMAIN h : h[i].id = id
    IN [c \in 1..(Len(h[k].on) + Len(h[k].off)) |->
           IF c <= Len(h[k].on) THEN h[k].on[c].out
           ELSE h[k].off[c - Len(h[k].on)].out]

\* The scenarios are runs in which the output works and nobody asks to stop.
Undisturbed == running /\ pc \notin {"start", "failed", "panicked"}

\* The note a scripted source yields at its first poll.
FirstNote(c) == sources[c].script[1][1][1]

\* The poll pass whose outcome `polled` holds was made at this tick.
HadPass == rep >= 2 \/ (rep = 1 /\ pc # "poll")

PassTick == IF pc \in {"note_on", "tick"} THEN tick_id ELSE tick_id - 1

\* The start routing of the note with this id, admitted in the first
\* repetition, has been made; the stop routing of a record that elapses at
\* tick d has been made.
StartMade(id) ==
    \/ rep >= 2
    \/ rep = 1 /\ pc \notin {"poll", "note_on"}
    \/ rep = 1 /\ pc = "note_on" /\ id \notin {p.id : p \in pending}

StopMade(id, d) ==
    \/ tick_id > d
    \/ tick_id = d /\ pc \notin {"reap", "note_off"}
    \/ tick_id = d /\ pc = "note_off" /\ id \notin StopPending

\* The events the output has received for the note with this id, in order.
Sent(id) ==
    IF id \notin {hist[k].id : k \in HistIds} THEN <<>>
    ELSE SelectSeq(CallsOf(hist, id), LAMBDA o : o.kind = "sent")

StartEvent(m) ==
    [kind |-> "sent", port |-> 0, msg |-> <<144, 60, m.velocity>>]

StopEvent(m) ==
    [kind |-> "sent", port |-> 0, msg |-> <<128, 60, m.velocity>>]

\* What a pass at tick t does with a source whose only note, of duration d,
\* is yielded at tick 0.
PolledAsExpected(c, t, d) ==
    IF t = 0 THEN polled[c].got = "some" /\ polled[c].notes = 1
                  /\ polled[c].calls = 1
    ELSE IF t < d THEN polled[c].got = "skipped" /\ polled[c].calls = 0
    ELSE polled[c].got = "some" /\ polled[c].notes = 0
         /\ polled[c].calls = 1

\* What the output has received for the note with this id, of a source whose
\* first poll yields m: nothing before its start routing, the start event
\* [0x90, 60, velocity] from then until the stop routing at tick
\* m.duration, and the start and the stop event [0x80, 60, velocity] after.
EventsAsExpected(id, m) ==
    Sent(id) = IF ~StartMade(id) THEN <<>>
               ELSE IF ~StopMade(id, m.duration) THEN <<StartEvent(m)>>
               ELSE <<StartEvent(m), StopEvent(m)>>

\* C3. Scenario A under SpecA, for every duration d >= 1 of the note: the
\* output receives the start event in the first repetition (tick_id 0, the
\* spec's tick 1), the stop event d clock advances later, and nothing else;
\* the source is skipped by the passes at ticks 1..d-1 and polled by the pass
\* that follows the stop and by every later one.
C3_ScenarioA ==
    Undisturbed =>
       /\ note_id <= 1 /\ Len(hist) <= 1
       /\ EventsAsExpected(1, FirstNote(0))
       /\ \A k \in HistIds :
            /\ \A i \in DOMAIN hist[k].on : hist[k].on[i].age = 0
            /\ \A i \in DOMAIN hist[k].off :
                 hist[k].off[i].left = 0 /\ hist[k].off[i].at = "note_off"
       /\ HadPass => PolledAsExpected(0, PassTick, FirstNote(0).duration)

C3_Witness ==
    /\ Undisturbed
    /\ FirstNote(0).duration = 2
    /\ tick_id = 2 /\ pc = "tick"
    /\ polled[0].got = "some" /\ polled[0].calls = 1
    /\ Sent(1) = <<StartEvent(FirstNote(0)), StopEvent(FirstNote(0))>>

\* How many start and how many stop events the output has received for the
\* note with this id.
SentOf(calls) ==
    Len(SelectSeq(calls, LAMBDA e : e.out.kind = "sent" /\ e.out.port = 0))

StartsSent(id) ==
    IF id \notin {hist[k].id : k \in HistIds} THEN 0
    ELSE SentOf(hist[CHOOSE k \in HistIds : hist[k].id = id].on)

StopsSent(id) ==
    IF id \notin {hist[k].id : k \in HistIds} THEN 0
    ELSE SentOf(hist[CHOOSE k \in HistIds : hist[k].id = id].off)

\* One start event once the start routing is made, one stop event once the
\* stop routing at tick d is made, none before.
CountsAsExpected(id, d) ==
    /\ StartsSent(id) = One(StartMade(id))
    /\ StopsSent(id) = One(StartMade(id) /\ StopMade(id, d))

\* C4. Scenario C under SpecC, for every pair of durations dA > dB >= 1: both
\* start events are received in the first repetition; B's stop event after dB
\* clock advances, and the pass at that tick polls B and skips A, which is
\* still sounding; A's stop event after dA clock advances.
C4_ScenarioC ==
    Undisturbed =>
       /\ note_id <= 2 /\ Len(hist) <= 2
       /\ CountsAsExpected(1, FirstNote(0).duration)
       /\ CountsAsExpected(2, FirstNote(1).duration)
       /\ \A k \in HistIds :
            /\ \A i \in DOMAIN hist[k].on : hist[k].on[i].age = 0
            /\ \A i \in DOMAIN hist[k].off :
                 hist[k].off[i].left = 0 /\ hist[k].off[i].at = "note_off"
       /\ HadPass =>
            /\ PolledAsExpected(0, PassTick, FirstNote(0).duration)
            /\ PolledAsExpected(1, PassTick, FirstNote(1).duration)

C4_Witness ==
    /\ Undisturbed
    /\ FirstNote(0).duration = 3 /\ FirstNote(1).duration = 1
    /\ tick_id = 1 /\ pc = "tick"
    /\ polled[0].got = "skipped" /\ 1 \in DOMAIN playing_notes
    /\ polled[1].got = "some" /\ polled[1].calls = 1
    /\ StartsSent(1) = 1 /\ StopsSent(1) = 0
    /\ StartsSent(2) = 1 /\ StopsSent(2) = 1

\* C5. Zero-duration notes never sound: a note of duration 0 taken from a
\* batch consumes one note id, is not inserted and has no start or stop
\* routing, ever; no record in the table has duration 0; and a source whose
\* poll inserted nothing has no record in the table, so nothing blocks its
\* next poll.
C5_ZeroDuration ==
    /\ \A k \in HistIds :
         /\ hist[k].id = k
         /\ hist[k].zero =>
              ~hist[k].inserted /\ hist[k].on = <<>> /\ hist[k].off = <<>>
    /\ note_id = Len(hist)
    /\ \A id \in DOMAIN playing_notes : playing_notes[id].note.duration # 0
    /\ \A p \in pending : p.playing.note.duration # 0
    /\ \A c \in ChannelIds :
         (polled[c].calls = 1 /\ polled[c].kept = 0) =>
            \A id \in DOMAIN playing_notes : playing_notes[id].channel_id # c

C5_Witness ==
    /\ pc = "loop" /\ tick_id = 2
    /\ Len(hist) = 2
    /\ hist[1].zero /\ hist[2].zero
    /\ polled[0].notes = 1 /\ polled[0].kept = 0

\* try_run_ext has left the while loop.
Draining == pc \in {"drain", "drain_off", "done"}

\* C6. Shutdown drain: once the loop condition has been read false no source
\* is polled and the clock is not advanced again; clear_all_notes empties the
\* table whatever the records' remaining durations; each drain step routes
\* the stop of one more of the removed records; when try_run_ext returns the
\* table is empty, every inserted record has had exactly one stop routing, and
\* nothing is routed afterwards; and the drain, once begun, does end: with the
\* return of try_run_ext or with route_note's panic.
C6_ShutdownDrain ==
    /\ [][Draining =>
            /\ tick_id' = tick_id /\ note_id' = note_id
            /\ polled' = polled /\ sources' = sources /\ rep' = rep
            /\ pc' \in {"drain", "drain_off", "done", "panicked"}]_vars
    /\ [][pc = "drain" =>
            /\ playing_notes' = << >>
            /\ {p.id : p \in pending'} = DOMAIN playing_notes
            /\ \A p \in pending' : p.playing = playing_notes[p.id]]_vars
    /\ [][pc = "drain_off" =>
            /\ Cardinality(pending') = Cardinality(pending) - 1
            /\ \E p \in pending \ pending' :
                 \E k \in HistIds :
                    /\ hist[k].id = p.id
                    /\ hist'[k].off = Append(hist[k].off, hist'[k].off[1])
                    /\ hist'[k].off[1].at = "drain_off"
                    /\ hist'[k].off[1].left =
                         p.playing.start_tick_id + p.playing.note.duration
                         - tick_id]_vars
    /\ [][pc = "done" => UNCHANGED <<pc, hist, player, pending>>]_vars
    /\ [](pc \in {"drain_off", "done"} => playing_notes = << >>)
    /\ [](pc = "done" =>
            /\ pending = {}
            /\ \A k \in Inserted : Len(hist[k].off) = 1)
    /\ (Draining ~> pc \in {"done", "panicked"})

C6_Witness ==
    /\ pc = "done"
    /\ \E k, j \in Inserted :
         /\ k # j
         /\ hist[k].off # <<>> /\ hist[k].off[1].at = "drain_off"
         /\ hist[k].off[1].left = 2
         /\ hist[j].off # <<>> /\ hist[j].off[1].at = "drain_off"

\* Steps that are a poll pass.
PollStep == pc = "poll" /\ pc' # "poll"

\* Steps of a routing loop, and the record such a step routes.
RouteStep == pc \in {"note_on", "note_off", "drain_off"} /\ hist' # hist

Routed == pending \ pending'

NewCall(id) ==
    LET k == CHOOSE i \in HistIds : hist[i].id = id
    IN IF pc = "note_on" THEN hist'[k].on[Len(hist'[k].on)].out
       ELSE hist'[k].off[Len(hist'[k].off)].out

\* Where control may be after one step taken at a position of the loop body.
NextInLoop(at) ==
    CASE at = "poll"     -> {"note_on", "tick"}
      [] at = "note_on"  -> {"note_on", "tick", "panicked"}
      [] at = "tick"     -> {"reap"}
      [] at = "reap"     -> {"note_off", "loop"}
      [] at = "note_off" -> {"note_off", "loop", "panicked"}
      [] OTHER           -> {}

InRepetition == pc \in {"poll", "note_on", "tick", "reap", "note_off"}

\* C7. Shutdown is observed only at the loop condition: the flag, once false,
\* stays false; whatever the flag is, a repetition goes from poll to start
\* routing to the clock advance to reap to stop routing and back to the loop
\* condition (or is aborted by route_note's panic); draining is entered only
\* from the loop condition and only with the flag false; at most one clock
\* advance is made after the flag has become false.
C7_ShutdownAtLoopTop ==
    /\ [][~running => ~running']_vars
    /\ [][(InRepetition /\ UNCHANGED running) => pc' \in NextInLoop(pc)]_vars
    /\ [][(InRepetition /\ running' # running) => pc' = pc]_vars
    /\ [][(pc' = "drain" /\ pc # "drain") => (pc = "loop" /\ ~running)]_vars
    /\ [][(pc = "loop" /\ UNCHANGED running) =>
             pc' = (IF running THEN "poll" ELSE "drain")]_vars
    /\ [](ticksAfterStop <= 1)

C7_Witness ==
    /\ pc = "drain_off"
    /\ ticksAfterStop = 1
    /\ tick_id = 2
    /\ \E k \in Inserted : hist[k].off # <<>> /\ hist[k].off[1].at = "note_off"

\* C8. Rest notes are silent: every route_note call for a rest, start or
\* stop, in the while loop or in the drain, with or without a port for the
\* source and a connection for the port, returns without sending and without
\* panicking; so no call recorded for a rest ever sent anything.
C8_RestsSilent ==
    [][RouteStep =>
         \A p \in Routed :
            p.playing.note.tone = "Rest" =>
               /\ pc' # "panicked"
               /\ NewCall(p.id) = [kind |-> "rest"]
               /\ \A c \in DOMAIN CallsOf(hist', p.id) :
                    CallsOf(hist', p.id)[c].kind = "rest"]_vars

C8_Witness ==
    /\ pc = "done"
    /\ out_ports = 0
    /\ \E k, j \in Inserted :
         /\ Len(hist[k].on) = 1 /\ hist[k].on[1].out.kind = "rest"
         /\ Len(hist[k].off) = 1 /\ hist[k].off[1].out.kind = "rest"
         /\ hist[k].off[1].at = "note_off"
         /\ Len(hist[j].off) = 1 /\ hist[j].off[1].out.kind = "rest"
         /\ hist[j].off[1].at = "drain_off"

\* C9. Monotone counters: tick_id starts at 0 and changes only by do_tick,
\* by exactly +1, once per loop repetition; note_id starts at 0, never
\* decreases, and goes up by one per note of every batch returned in a poll
\* pass; the ids given out are 1, 2, 3, ... in order; an insert uses a key
\* above every key used before and leaves every existing record as it is.
C9_MonotoneCounters ==
    /\ [](pc = "start" => (tick_id = 0 /\ note_id = 0))
    /\ [](tick_id = (IF pc \in {"poll", "note_on", "tick"} THEN rep - 1
                     ELSE IF pc = "panicked" THEN tick_id ELSE rep))
    /\ [](note_id = Len(hist) /\ \A k \in HistIds : hist[k].id = k)
    /\ [](\A id \in DOMAIN playing_notes : 1 <= id /\ id <= note_id)
    /\ [][tick_id' = (IF pc = "tick" /\ pc' = "reap" THEN tick_id + 1
                      ELSE tick_id)]_vars
    /\ [][note_id' >= note_id]_vars
    /\ [][PollStep =>
            /\ note_id' = note_id + Sum([c \in ChannelIds |-> polled'[c].notes],
                                        ChannelIds)
            /\ Cardinality(DOMAIN playing_notes') =
                 Cardinality(DOMAIN playing_notes)
                 + Sum([c \in ChannelIds |-> polled'[c].kept], ChannelIds)]_vars
    /\ [][/\ \A id \in DOMAIN playing_notes' \ DOMAIN playing_notes :
               id > note_id
          /\ \A id \in DOMAIN playing_notes' \cap DOMAIN playing_notes :
               playing_notes'[id] = playing_notes[id]]_vars

C9_Witness ==
    /\ tick_id = 3 /\ rep = 3
    /\ note_id = 2
    /\ hist[1].zero /\ ~hist[2].zero
    /\ 2 \in DOMAIN playing_notes

\* C10. Source failure is isolated: a source whose next() returned None in a
\* poll pass was invoked once in that pass, consumed no note id and had
\* nothing inserted; every source without a record in the table, before and
\* after it in the vector, was polled in the same pass; the pass is followed
\* by start routing or the clock advance, never by the end of the loop; the
\* source has no record in the table afterwards and is polled again in the
\* next pass.
C10_SourceFailureIsolated ==
    /\ [](\A c \in ChannelIds :
            polled[c].got = "none" =>
               /\ polled[c].calls = 1
               /\ polled[c].notes = 0 /\ polled[c].kept = 0
               /\ \A id \in DOMAIN playing_notes :
                     playing_notes[id].channel_id # c
               /\ \A d \in ChannelIds :
                     polled[d].calls = (IF polled[d].clear THEN 1 ELSE 0))
    /\ [][PollStep =>
            /\ pc' \in {"note_on", "tick"}
            /\ note_id' = note_id + Sum([c \in ChannelIds |-> polled'[c].notes],
                                        ChannelIds)
            /\ \A c \in ChannelIds :
                  /\ polled[c].got = "none" => polled'[c].calls = 1
                  /\ polled'[c].got = "some" =>
                       Cardinality({id \in DOMAIN playing_notes' :
                                       playing_notes'[id].channel_id = c})
                       = polled'[c].kept]_vars
    /\ [][(pc = "tick" /\ tick_id < MaxTick /\ UNCHANGED running) =>
             (pc' = "reap" /\ tick_id' = tick_id + 1)]_vars

C10_Witness ==
    /\ channels = 2
    /\ pc = "reap" /\ tick_id = 2
    /\ polled[0].got = "none" /\ polled[0].calls = 1
    /\ polled[1].got = "some" /\ polled[1].kept = 1
    /\ \E id \in DOMAIN playing_notes :
          /\ playing_notes[id].channel_id = 1
          /\ playing_notes[id].start_tick_id = 1

\* A record of a pitched note whose source the router maps to no port.
Unrouted(p) ==
    p.playing.note.tone # "Rest" /\ route[p.playing.channel_id] = None

\* Where control is after the last iteration of a routing loop.
AfterRouting(at) ==
    CASE at = "note_on"   -> "tick"
      [] at = "note_off"  -> "loop"
      [] at = "drain_off" -> "done"

\* C11. Routing misconfiguration is recoverable: every route_note call, start
\* or stop, for a pitched record whose source has no port reports the missing
\* port, sends nothing and does not abort: the routing loop goes on with its
\* next record or with the statement after it. The record is in the table
\* when its start is routed, a stop routed by the while loop falls on start
\* tick + duration with the record removed, no such record stays in the table
\* past that tick, and a source without a port is skipped by a poll pass
\* exactly when the table holds a record of it, so it is polled again in the
\* first pass after its records have elapsed.
C11_MisroutedRecoverable ==
    /\ [][RouteStep =>
            \A p \in Routed :
               Unrouted(p) =>
                  /\ NewCall(p.id) = [kind |-> "noport"]
                  /\ pc' = (IF pending' = {} THEN AfterRouting(pc) ELSE pc)
                  /\ pc = "note_on" =>
                        /\ p.id \in DOMAIN playing_notes
                        /\ playing_notes[p.id] = p.playing
                        /\ p.playing.start_tick_id = tick_id
                  /\ pc = "note_off" =>
                        /\ p.id \notin DOMAIN playing_notes
                        /\ p.playing.start_tick_id + p.playing.note.duration
                             = tick_id]_vars
    /\ [][PollStep =>
            \A c \in ChannelIds :
               route[c] = None =>
                  /\ polled'[c].got = "skipped" <=>
                        \E id \in DOMAIN playing_notes :
                           playing_notes[id].channel_id = c
                  /\ polled'[c].got # "skipped" => polled'[c].calls = 1]_vars
    /\ [](\A id \in DOMAIN playing_notes :
            LET r == playing_notes[id]
            IN route[r.channel_id] = None =>
                  IF pc = "reap"
                  THEN r.start_tick_id + r.note.duration >= tick_id
                  ELSE r.start_tick_id + r.note.duration > tick_id)

C11_Witness ==
    /\ channels = 2 /\ route[1] = None
    /\ pc = "tick" /\ tick_id = 1
    /\ polled[1].got = "some" /\ polled[1].calls = 1
    /\ \E k \in Inserted :
         /\ Len(hist[k].on) = 1 /\ hist[k].on[1].out.kind = "noport"
         /\ Len(hist[k].off) = 1 /\ hist[k].off[1].out.kind = "noport"
         /\ hist[k].off[1].at = "note_off" /\ hist[k].off[1].left = 0

\* A record of a pitched note whose source the router maps to a port.
RoutedToPort(p) ==
    p.playing.note.tone # "Rest" /\ route[p.playing.channel_id] # None

\* C12. Sink failure is fatal: a route_note call for a pitched record whose
\* source has a port either sends or panics, and panics whenever the port has
\* no connection; a panic is the end of the run: the call that panicked is
\* the last thing recorded, and afterwards no source is polled, the clock is
\* not advanced, nothing is routed, and the records left in the table or in
\* the routing loop stay there without a stop.
C12_SinkFailureFatal ==
    /\ [][RouteStep =>
            \A p \in Routed :
               RoutedToPort(p) =>
                  /\ NewCall(p.id).kind \in {"sent", "panic"}
                  /\ route[p.playing.channel_id][1] \notin port_id_to_conn
                        => NewCall(p.id).kind = "panic"
                  /\ NewCall(p.id).kind = "panic" <=> pc' = "panicked"]_vars
    /\ [][pc' = "panicked" /\ pc # "panicked" =>
            /\ RouteStep
            /\ \E p \in Routed : NewCall(p.id).kind = "panic"]_vars
    /\ [][pc = "panicked" =>
            UNCHANGED <<pc, config, sources, port_id_to_conn, player, pending,
                        polled, hist, rep, ticksAfterStop>>]_vars

C12_Witness ==
    /\ pc = "panicked"
    /\ out_ports = 1 /\ port_id_to_conn = {0}
    /\ \E k, j \in Inserted :
         /\ k # j
         /\ hist[k].on # <<>> /\ hist[k].on[1].out.kind = "sent"
         /\ hist[k].off # <<>> /\ hist[k].off[1].out.kind = "panic"
         /\ hist[j].id \in DOMAIN playing_notes /\ hist[j].off = <<>>

\* try_run_ext has got past its start-up: the while loop has been entered or
\* is about to be.
LoopStarted == pc \notin {"start", "failed"}

\* C13. Startup failure precedes ticking: whenever try_run_ext is past its
\* start-up (so before the first poll and the first clock advance, and ever
\* after) every port the router requires has an open connection.
C13_StartupBeforeTicking ==
    LoopStarted => required_ports(route) \subseteq port_id_to_conn

\* The loop polls and advances the clock with a required port unconnected.
C13_Witness ==
    /\ ~(required_ports(route) \subseteq port_id_to_conn)
    /\ rep = 2 /\ tick_id = 1 /\ pc = "poll"
    /\ polled[0].calls = 1

\* The ids of the records the start-routing loop still has to route.
StartPending ==
    IF pc = "note_on" THEN {p.id : p \in pending} ELSE {}

\* C14. Exactly-once start, in a run that route_note's panic does not abort:
\* the vector a poll_channels call of the run loop returns holds exactly the
\* records that call inserted; every inserted record is handed to the
\* start-routing loop or has had its one start routing, never both and never
\* neither; a start routing is made at the record's start tick, and when
\* control reaches do_tick every inserted record has had its start routing.
C14_ExactlyOnceStart ==
    /\ [][PollStep =>
            /\ {p.id : p \in pending'} =
                  DOMAIN playing_notes' \ DOMAIN playing_notes
            /\ \A p \in pending' :
                  /\ p.playing = playing_notes'[p.id]
                  /\ p.playing.start_tick_id = tick_id]_vars
    /\ [](\A k \in HistIds :
            /\ Len(hist[k].on) <= 1
            /\ ~hist[k].inserted => hist[k].on = <<>>
            /\ \A i \in DOMAIN hist[k].on : hist[k].on[i].age = 0)
    /\ [](pc # "panicked" =>
            \A k \in Inserted :
               One(hist[k].id \in StartPending) + Len(hist[k].on) = 1)
    /\ [](pc = "tick" => \A k \in Inserted : Len(hist[k].on) = 1)

C14_Witness ==
    /\ pc = "tick" /\ tick_id = 1
    /\ \E i, j \in DOMAIN playing_notes :
         /\ playing_notes[i].start_tick_id = 0
         /\ playing_notes[j].start_tick_id = 1
         /\ Len(hist[i].on) = 1 /\ Len(hist[j].on) = 1

\* C15. FixedSequence::mask: for every sequence and every mask vector the
\* result has as many notes as the sequence, note i being the sequence's note
\* i when mask[i mod len(mask)] is true and that note turned into a rest when
\* it is false.
C15_MaskCycles ==
    seq_op.name = "mask" =>
       /\ Len(seq_notes) = Len(seq_prev)
       /\ \A i \in 1..Len(seq_notes) :
             seq_notes[i] =
                IF seq_op.arg[((i - 1) % Len(seq_op.arg)) + 1]
                THEN seq_prev[i] ELSE set_pitch_rest(seq_prev[i])

\* mask(vec![]) of a sequence of two notes
C15_Witness ==
    /\ seq_op.name = "mask" /\ seq_op.arg = <<>>
    /\ Len(seq_prev) = 2
    /\ seq_notes = <<>>

\* C15 for the mask vectors that are not empty.
C15_MaskCyclesNonEmpty ==
    (seq_op.name = "mask" /\ seq_op.arg # <<>>) =>
       /\ Len(seq_notes) = Len(seq_prev)
       /\ \A i \in 1..Len(seq_notes) :
             seq_notes[i] =
                IF seq_op.arg[((i - 1) % Len(seq_op.arg)) + 1]
                THEN seq_prev[i] ELSE set_pitch_rest(seq_prev[i])

\* The number of notes that come before the notes made of note i.
TicksBefore(s, i) == len_ticks(SubSeq(s, 1, i - 1))

\* C16. FixedSequence::split_to_ticks: note i of the sequence, of duration d,
\* becomes d consecutive notes of duration 1 that are otherwise note i, placed
\* after the notes made of notes 1..i-1 (none when d = 0); so the result has
\* len_ticks(sequence) notes and its own len_ticks is the same number.
C16_SplitToTicks ==
    seq_op.name = "split_to_ticks" =>
       /\ len(seq_notes) = len_ticks(seq_prev)
       /\ len_ticks(seq_notes) = len_ticks(seq_prev)
       /\ \A i \in 1..Len(seq_prev) :
             \A j \in 1..seq_prev[i].duration :
                seq_notes[TicksBefore(seq_prev, i) + j] =
                   [seq_prev[i] EXCEPT !.duration = 1]

C16_Witness ==
    /\ seq_op.name = "split_to_ticks"
    /\ Len(seq_prev) = 3
    /\ seq_prev[1].duration = 2 /\ seq_prev[1].tone = "C4"
    /\ seq_prev[2].duration = 0
    /\ seq_prev[3].duration = 1 /\ seq_prev[3].tone = "Rest"
    /\ Len(seq_notes) = 3
    /\ seq_notes[2].tone = "C4" /\ seq_notes[3].tone = "Rest"

\* The calls among these that handed a message to a connection.
SentIn(calls) == {i \in DOMAIN calls : calls[i].out.kind = "sent"}

\* How many of these calls sent a message to this port with this pitch.
CountOn(calls, port, pitch) ==
    Cardinality({i \in SentIn(calls) :
                    calls[i].out.port = port /\ calls[i].out.msg[2] = pitch})

\* The start events and the stop events this port has received with this
\* pitch, over the whole run.
StartsOnSink(port, pitch) ==
    Sum([k \in HistIds |-> CountOn(hist[k].on, port, pitch)], HistIds)

StopsOnSink(port, pitch) ==
    Sum([k \in HistIds |-> CountOn(hist[k].off, port, pitch)], HistIds)

\* The (port, pitch) pairs of the messages sent so far.
SinkKeys ==
    UNION {{<<c[i].out.port, c[i].out.msg[2]>> : i \in SentIn(c)} :
              c \in UNION {{hist[k].on, hist[k].off} : k \in HistIds}}

\* C17. No hanging notes on the sink: every stop event sent for a record
\* comes after a start event sent for the same record to the same port with
\* the same pitch and velocity, a start with status NOTE_ON_MSG and a stop
\* with NOTE_OFF_MSG; in a run that route_note's panic does not abort a start
\* event sent is followed by a stop event sent once the record has left the
\* table and the routing loops; and when try_run_ext returns every port has
\* received as many stop events as start events for every pitch.
C17_NoHangingNotes ==
    /\ \A k \in HistIds :
         /\ \A i \in SentIn(hist[k].on) :
               hist[k].on[i].out.msg[1] = NOTE_ON_MSG
         /\ \A i \in SentIn(hist[k].off) :
               /\ hist[k].off[i].out.msg[1] = NOTE_OFF_MSG
               /\ Len(hist[k].on) = 1
               /\ hist[k].on[1].out.kind = "sent"
               /\ hist[k].on[1].out.port = hist[k].off[i].out.port
               /\ hist[k].on[1].out.msg[2] = hist[k].off[i].out.msg[2]
               /\ hist[k].on[1].out.msg[3] = hist[k].off[i].out.msg[3]
    /\ pc # "panicked" =>
         \A k \in Inserted :
            (SentIn(hist[k].on) # {} /\ ~InTable(k) /\ ~AwaitsStop(k)) =>
               SentIn(hist[k].off) # {}
    /\ pc = "done" =>
         \A key \in SinkKeys :
            StopsOnSink(key[1], key[2]) = StartsOnSink(key[1], key[2])

C17_Witness ==
    /\ pc = "done"
    /\ \E key \in SinkKeys :
         StartsOnSink(key[1], key[2]) = 2 /\ StopsOnSink(key[1], key[2]) = 2
    /\ \E k, j \in Inserted :
         /\ SentIn(hist[k].off) # {} /\ hist[k].off[1].at = "note_off"
         /\ SentIn(hist[j].off) # {} /\ hist[j].off[1].at = "drain_off"

\* The records clear_elapsed_notes is due to remove, and those it would be
\* too late for.
Due(now) ==
    {id \in DOMAIN playing_notes :
        playing_notes[id].start_tick_id + playing_notes[id].note.duration
          = now}

Overdue(now) ==
    {id \in DOMAIN playing_notes :
        playing_notes[id].start_tick_id + playing_notes[id].note.duration
          < now}

\* C18. No record outlives its elapse tick: at the loop condition and at the
\* poll that follows it every record of the table has start_tick_id <=
\* tick_id < start_tick_id + duration; when clear_elapsed_notes is called no
\* record is past its elapse tick, and the call removes exactly the records
\* whose elapse tick is the current tick, each one by then in the table for
\* exactly its duration in clock advances.
C18_NoRecordOutlives ==
    /\ [](pc \in {"loop", "poll"} =>
            \A id \in DOMAIN playing_notes :
               LET r == playing_notes[id]
               IN /\ r.start_tick_id <= tick_id
                  /\ tick_id < r.start_tick_id + r.note.duration)
    /\ [](Overdue(tick_id) = {})
    /\ [](pc \in {"note_on", "tick"} => Due(tick_id) = {})
    /\ [][pc = "reap" /\ pc' # "reap" =>
            /\ DOMAIN playing_notes \ DOMAIN playing_notes' = Due(tick_id)
            /\ {p.id : p \in pending'} = Due(tick_id)
            /\ \A p \in pending' :
                  tick_id - p.playing.start_tick_id = p.playing.note.duration
            /\ \A id \in DOMAIN playing_notes' :
                  tick_id < playing_notes'[id].start_tick_id
                            + playing_notes'[id].note.duration]_vars

C18_Witness ==
    /\ pc = "loop" /\ tick_id = 2 /\ running
    /\ \E id \in DOMAIN playing_notes :
         /\ playing_notes[id].start_tick_id = 1
         /\ playing_notes[id].note.duration = 2
    /\ \E k \in Inserted :
         /\ hist[k].off # <<>> /\ hist[k].off[1].at = "note_off"

\* Note i of the batch a scripted source yields at its first poll.
BatchNote(c, i) == sources[c].script[1][1][i]

Longest(c) ==
    IF BatchNote(c, 1).duration > BatchNote(c, 2).duration
    THEN BatchNote(c, 1).duration ELSE BatchNote(c, 2).duration

\* What a pass at tick t does with a source whose only batch, of two notes
\* the longest of which lasts d ticks, is yielded at tick 0.
BatchPolledAsExpected(c, t, d) ==
    IF t = 0 THEN polled[c].got = "some" /\ polled[c].notes = 2
                  /\ polled[c].kept = 2 /\ polled[c].calls = 1
    ELSE IF t < d THEN polled[c].got = "skipped" /\ polled[c].calls = 0
    ELSE polled[c].got = "some" /\ polled[c].notes = 0
         /\ polled[c].calls = 1

\* C19. Multi-note batches, under SpecB (one source whose first batch holds
\* two pitched notes of different durations d1, d2 >= 1; output working, no
\* shutdown): both records carry the source's index and the tick of the
\* pass; each has one start event in the first repetition and one stop event
\* after its own duration in clock advances; and the source is skipped by
\* every pass before tick max(d1, d2), also by those after the shorter note
\* has elapsed, and polled by the pass at that tick.
C19_MultiNoteBatch ==
    Undisturbed =>
       /\ note_id <= 2 /\ Len(hist) <= 2
       /\ \A id \in DOMAIN playing_notes :
             /\ playing_notes[id].channel_id = 0
             /\ playing_notes[id].start_tick_id = 0
             /\ playing_notes[id].note = BatchNote(0, id)
       /\ CountsAsExpected(1, BatchNote(0, 1).duration)
       /\ CountsAsExpected(2, BatchNote(0, 2).duration)
       /\ \A k \in HistIds :
            /\ \A i \in DOMAIN hist[k].on : hist[k].on[i].age = 0
            /\ \A i \in DOMAIN hist[k].off :
                 hist[k].off[i].left = 0 /\ hist[k].off[i].at = "note_off"
       /\ HadPass => BatchPolledAsExpected(0, PassTick, Longest(0))

C19_Witness ==
    /\ Undisturbed
    /\ BatchNote(0, 1).duration = 1 /\ BatchNote(0, 2).duration = 3
    /\ tick_id = 2 /\ pc = "tick"
    /\ polled[0].got = "skipped"
    /\ StartsSent(1) = 1 /\ StopsSent(1) = 1
    /\ StartsSent(2) = 1 /\ StopsSent(2) = 0
    /\ DOMAIN playing_notes = {2}

\* The records the latest poll_channels call inserted: the inserted ones
\* among the notes that took the last note ids, as many as the call's batches
\* held.
InsertedByCall ==
    LET taken == Sum([c \in ChannelIds |-> polled[c].notes], ChannelIds)
    IN {hist[k].id : k \in {j \in Inserted : j > note_id - taken}}

\* The records in the vector the latest call returned.
Returned == {p.id : p \in pending}

====
